---- MODULE Spec2Model ----
(***************************************************************************)
(* The sliding-window segmenter of src/main.py: CreateNsAudioPackage.      *)
(* One call of execute() is one step.  The page parser (extract_ogg) is    *)
(* not part of src/; it is modelled from the specification's description   *)
(* of the Page Parser collaborator.                                        *)
(*                                                                         *)
(* Durations.  The code holds durations as Python floats, in seconds:      *)
(* samples / sample_rate.  The model holds every duration as an integer    *)
(* count of 1/sample_rate seconds (so "d seconds" is d * sample_rate).     *)
(* All granule positions of the model are multiples of GranuleStep (2.5 s) *)
(* or of HalfSecond (0.5 s); such durations and their sums are exact in    *)
(* binary floating point, so the integer arithmetic is the code's.         *)
(*                                                                         *)
(* Optional values (None or a value) are sequences of length 0 or 1.       *)
(***************************************************************************)
EXTENDS Integers, Sequences, FiniteSets, TLC

\* ------------------------------------------------------------------------
\* Program constants
\* ------------------------------------------------------------------------
sample_rate == 48000
last_n_seconds == 10

\* ------------------------------------------------------------------------
\* Bounds of the model
\* ------------------------------------------------------------------------
\* largest granule position fed, in GranuleSteps
MaxGranule == 12
\* largest window length a call may start from
MaxWindow == 3
\* largest number of pages the header accumulator may hold before a call
MaxHeaderFrames == 2
\* calls are fed while the cumulative duration is at most this many seconds
MaxSeconds == 20
\* pages fed in the half-second scenario
MaxScenarioPages == 120

GranuleStep == (5 * sample_rate) \div 2
HalfSecond == sample_rate \div 2

\* ------------------------------------------------------------------------
\* Bytes of the wire format (Page Parser, modelled from the specification)
\* A page on the wire is <<OggS, granule position, payload>>.
\* ------------------------------------------------------------------------
OggS == -1
OpusHead == -2
OpusTags == -3
AudioPayload == -4

Payloads == {OpusHead, OpusTags, AudioPayload}

PageBytes(gp, payload) == <<OggS, gp, payload>>

\* OggSFrame(data) raises unless data is one complete page
WellFormed(data) ==
    /\ Len(data) = 3
    /\ data[1] = OggS
    /\ data[2] >= 0
    /\ data[3] \in Payloads

OggSFrame(data) ==
    [header |-> [granule_position |-> data[2]], payload |-> data[3], raw_data |-> data]

\* the index of the next capture pattern after position i, or Len + 1
RECURSIVE NextCapture(_, _)
NextCapture(bytes, i) ==
    IF i > Len(bytes) THEN Len(bytes) + 1
    ELSE IF bytes[i] = OggS THEN i
    ELSE NextCapture(bytes, i + 1)

\* split a byte string at its capture patterns into frames
RECURSIVE split_ogg_data_into_frames(_)
split_ogg_data_into_frames(bytes) ==
    IF bytes = <<>> THEN <<>>
    ELSE LET start == NextCapture(bytes, 1)
             stop  == NextCapture(bytes, start + 1)
         IN  IF start > Len(bytes) THEN <<>>
             ELSE LET chunk == SubSeq(bytes, start, stop - 1)
                      rest  == SubSeq(bytes, stop, Len(bytes))
                  IN  IF WellFormed(chunk)
                      THEN <<OggSFrame(chunk)>> \o split_ogg_data_into_frames(rest)
                      ELSE split_ogg_data_into_frames(rest)

IsIdHeader(f) == f.payload = OpusHead
IsCommentHeader(f) == f.payload = OpusTags

\* <<id_header_frame, comment_header_frames>>: the first identification page
\* (Optional) and the comment pages found in the accumulated bytes
get_header_frames(bytes) ==
    LET frames == split_ogg_data_into_frames(bytes)
        ids    == SelectSeq(frames, IsIdHeader)
    IN  << IF ids = <<>> THEN <<>> ELSE <<ids[1]>>,
           SelectSeq(frames, IsCommentHeader) >>

\* b''.join of the frames' raw bytes
RECURSIVE JoinRaw(_)
JoinRaw(frames) ==
    IF frames = <<>> THEN <<>>
    ELSE Head(frames).raw_data \o JoinRaw(Tail(frames))

\* ------------------------------------------------------------------------
\* State
\* ------------------------------------------------------------------------
VARIABLES
    audio_data_buffer,            \* the window: frames, oldest first
    current_audio_buffer_seconds, \* cumulative window duration
    header_buffer,                \* accumulated raw bytes
    header_frames,                \* <<>> (None) or the captured header frames
    dp_in,                        \* dp.data handed to the last call
    dp_data,                      \* dp.data after the last call
    outcome,                      \* how the last call ended
    frame_duration,               \* the last call's frame_duration (Optional)
    pop_frame,                    \* the frame the last call popped (Optional)
    streaming_before,             \* the headers were captured when the last call began
    last_granule,                 \* granule position of the last page accounted (Optional)
    increasing,                   \* the accounted pages' granule positions strictly increase
    max_page_samples,             \* largest granule advance of an accounted page (while increasing)
    empty_charge,                 \* granule positions charged against an empty window
    threads,                      \* interleaved calls: each call's position and locals
    overlapped,                   \* a call took a step while another was under way
    start_state                   \* window and cumulative duration the interleaved calls began from

code_vars == <<audio_data_buffer, current_audio_buffer_seconds, header_buffer, header_frames>>
call_vars == <<dp_in, dp_data, outcome, frame_duration, pop_frame, streaming_before>>
hist_vars == <<last_granule, increasing, max_page_samples, empty_charge>>
thread_vars == <<threads, overlapped, start_state>>
vars == <<code_vars, call_vars, hist_vars, thread_vars>>

\* ------------------------------------------------------------------------
\* calculate_frame_duration and the pieces of execute
\* ------------------------------------------------------------------------
\* "previous - current" for "current - previous"
calculate_frame_duration_reversed(current_granule_position, previous_granule_position, rate) ==
    IF previous_granule_position = <<>> THEN 0
    ELSE (previous_granule_position[1] - current_granule_position) * (sample_rate \div rate)

calculate_frame_duration(current_granule_position, previous_granule_position, rate) ==
    IF previous_granule_position = <<>> THEN 0
    ELSE LET samples == current_granule_position - previous_granule_position[1]
         IN  \* samples / rate seconds, in units of 1/sample_rate seconds; every
             \* caller passes rate = sample_rate, where the quotient is exact
             samples * (sample_rate \div rate)

\* the guard of line 43 left out: an empty payload reaches the parser
DataPresent_always(data) == TRUE

\* line 43: if dp.data
DataPresent(data) == data /= <<>>

\* header detection run on every call
HeadersMissing_always(frames) == TRUE

\* line 46: if not self.header_frames
HeadersMissing(frames) == frames = <<>>

\* "=" for "+=": the accumulator keeps the last page only
Accumulate_replace(hbuf, raw) == raw

\* line 47: self.header_buffer += frame.raw_data
Accumulate(hbuf, raw) == hbuf \o raw

\* "or" for "and"
HeadersFound_either(found) == found[1] /= <<>> \/ found[2] /= <<>>

\* line 52: if id_header_frame and comment_header_frames
HeadersFound(found) == found[1] /= <<>> /\ found[2] /= <<>>

\* lines 53-55
CapturedHeaders(found) == found[1] \o found[2]

\* the tail never consulted: every page measured from 0
previous_granule_position_zero(buffer) == 0

\* lines 63 and 66: the window tail's granule position, or 0
previous_granule_position(buffer) ==
    IF Len(buffer) > 0 THEN buffer[Len(buffer)].header.granule_position ELSE 0

\* ">=" for ">"
ShouldEmit_nonneg(duration) == duration >= 0

\* "!=" for ">": a page that falls back emits too
ShouldEmit_nonzero(duration) == duration /= 0

\* line 76
ShouldEmit(duration) == duration > 0

\* ">" for ">="
ShouldEvict_strict(seconds) == seconds > last_n_seconds * sample_rate

\* the target compared with 0: every advancing page evicts
ShouldEvict_early(seconds) == seconds >= 0

\* pop() for pop(0): the newest frame goes
Pop_last(buffer) ==
    [frame |-> buffer[Len(buffer)], rest |-> SubSeq(buffer, 1, Len(buffer) - 1)]

\* the buffer cleared for one frame popped
Pop_all(buffer) == [frame |-> Head(buffer), rest |-> <<>>]

\* line 79: pop_frame = self.audio_data_buffer.pop(0)
Pop(buffer) == [frame |-> Head(buffer), rest |-> Tail(buffer)]

\* line 77
ShouldEvict(seconds) == seconds >= last_n_seconds * sample_rate

\* line 83 left out: nothing is subtracted for the popped frame
pop_frame_duration_dropped(popped, rest) == 0

\* the two granule positions of line 82 swapped
pop_frame_duration_swapped(popped, rest) ==
    LET pop_frame_granule_position == popped.header.granule_position
        next_frame_granule_position ==
            IF Len(rest) > 0 THEN rest[1].header.granule_position
            ELSE pop_frame_granule_position
    IN  calculate_frame_duration(pop_frame_granule_position,
                                 <<next_frame_granule_position>>, sample_rate)

\* lines 80-82: the duration attributed to the popped frame
pop_frame_duration(popped, rest) ==
    LET pop_frame_granule_position == popped.header.granule_position
        next_frame_granule_position ==
            IF Len(rest) > 0 THEN rest[1].header.granule_position
            ELSE pop_frame_granule_position
    IN  calculate_frame_duration(next_frame_granule_position,
                                 <<pop_frame_granule_position>>, sample_rate)

\* the header bytes left out of the blob
n_seconds_of_audio_headerless(hbuf, buffer) == JoinRaw(buffer)

\* line 88
n_seconds_of_audio(hbuf, buffer) == hbuf \o JoinRaw(buffer)

\* lines 63-89, for a parsed frame, with the header accumulator as the
\* bootstrap left it
Account(frame, hbuf, hframes) ==
    LET current_granule_position == frame.header.granule_position
        prev     == previous_granule_position(audio_data_buffer)
        duration == calculate_frame_duration(current_granule_position, <<prev>>, sample_rate)
        appended == Append(audio_data_buffer, frame)
        seconds  == current_audio_buffer_seconds + duration
        evict    == ShouldEmit(duration) /\ ShouldEvict(seconds)
        popped   == Pop(appended)
        rest     == IF evict THEN popped.rest ELSE appended
        advance  == current_granule_position
                      - (IF last_granule = <<>> THEN 0 ELSE last_granule[1])
    IN  /\ header_buffer' = hbuf
        /\ header_frames' = hframes
        /\ frame_duration' = <<duration>>
        /\ audio_data_buffer' = rest
        /\ pop_frame' = IF evict THEN <<popped.frame>> ELSE <<>>
        /\ current_audio_buffer_seconds' =
              IF evict THEN seconds - pop_frame_duration(popped.frame, rest)
              ELSE seconds
        /\ IF ShouldEmit(duration)
           THEN /\ dp_data' = n_seconds_of_audio(hbuf, rest)
                /\ outcome' = "Blob"
           ELSE /\ dp_data' = frame.raw_data
                /\ outcome' = "NoUpdate"
        /\ last_granule' = <<current_granule_position>>
        /\ increasing' = (increasing /\ (last_granule = <<>> \/ advance > 0))
        /\ max_page_samples' = IF ~increasing' THEN 0
                               ELSE IF advance > max_page_samples THEN advance
                               ELSE max_page_samples
        /\ empty_charge' = IF audio_data_buffer = <<>>
                           THEN empty_charge + current_granule_position
                           ELSE empty_charge

\* ------------------------------------------------------------------------
\* execute(dp, dpm): one call
\* ------------------------------------------------------------------------
execute(data) ==
    /\ UNCHANGED thread_vars
    /\ dp_in' = data
    /\ streaming_before' = ~HeadersMissing(header_frames)
    /\ IF ~DataPresent(data)
       THEN /\ outcome' = "Skipped"
            /\ dp_data' = data
            /\ frame_duration' = <<>>
            /\ pop_frame' = <<>>
            /\ UNCHANGED <<code_vars, hist_vars>>
       ELSE IF ~WellFormed(data)
       THEN /\ outcome' = "StructuralParseError"
            /\ dp_data' = data
            /\ frame_duration' = <<>>
            /\ pop_frame' = <<>>
            /\ UNCHANGED <<code_vars, hist_vars>>
       ELSE LET frame == OggSFrame(data) IN
            IF HeadersMissing(header_frames)
            THEN LET hbuf  == Accumulate(header_buffer, frame.raw_data)
                     found == get_header_frames(hbuf)
                 IN  IF HeadersFound(found)
                     THEN Account(frame, hbuf, CapturedHeaders(found))
                     ELSE /\ header_buffer' = hbuf
                          /\ outcome' = "HeadersIncomplete"
                          /\ dp_data' = data
                          /\ frame_duration' = <<>>
                          /\ pop_frame' = <<>>
                          /\ UNCHANGED <<audio_data_buffer, current_audio_buffer_seconds,
                                         header_frames, hist_vars>>
            ELSE Account(frame, header_buffer, header_frames)

\* ------------------------------------------------------------------------
\* The inputs fed
\* ------------------------------------------------------------------------
\* granule advances over the last accounted page, in GranuleSteps
\* while the headers are awaited: header pages at 0 s or 10 s, other pages at 0 s;
\* once streaming: pages that fall back, repeat, or advance by 2.5 s or 12.5 s,
\* and header pages that repeat the last granule position
AudioAdvances == IF header_frames = <<>> THEN {0} ELSE {-1, 0, 1, 5}
HeaderAdvances == IF header_frames = <<>> THEN {0, 4} ELSE {0}

BaseGranule == IF last_granule = <<>> THEN 0 ELSE last_granule[1]

Granules(advances) ==
    { g \in { BaseGranule + a * GranuleStep : a \in advances } :
        g >= 0 /\ g <= MaxGranule * GranuleStep }

Pages ==
    { PageBytes(g, AudioPayload) : g \in Granules(AudioAdvances) }
      \cup { PageBytes(g, p) : g \in Granules(HeaderAdvances), p \in {OpusHead, OpusTags} }

\* bytes that are no complete page: no capture pattern; a truncated page
Malformed == { <<OggS, 0>> }

InBounds ==
    /\ Len(audio_data_buffer) <= MaxWindow
    /\ Len(header_buffer) <= 3 * MaxHeaderFrames \/ ~HeadersMissing(header_frames)
    /\ current_audio_buffer_seconds <= MaxSeconds * sample_rate

Init ==
    /\ audio_data_buffer = <<>>
    /\ current_audio_buffer_seconds = 0
    /\ header_buffer = <<>>
    /\ header_frames = <<>>
    /\ dp_in = <<>>
    /\ dp_data = <<>>
    /\ outcome = "None"
    /\ frame_duration = <<>>
    /\ pop_frame = <<>>
    /\ streaming_before = FALSE
    /\ last_granule = <<>>
    /\ increasing = TRUE
    /\ max_page_samples = 0
    /\ empty_charge = 0
    /\ threads = <<>>
    /\ overlapped = FALSE
    /\ start_state = <<>>

Accept ==
    /\ InBounds
    /\ \E data \in Pages \cup Malformed \cup {<<>>} : execute(data)

Next == Accept

Spec == Init /\ [][Next]_vars

\* ------------------------------------------------------------------------
\* The half-second scenario: the identification page, the comment page, then
\* audio pages that each advance the granule position by 24000 samples
\* ------------------------------------------------------------------------
FeedIdHeader ==
    /\ HeadersMissing(header_frames)
    /\ header_buffer = <<>>
    /\ execute(PageBytes(0, OpusHead))

FeedCommentHeader ==
    /\ HeadersMissing(header_frames)
    /\ header_buffer /= <<>>
    /\ execute(PageBytes(0, OpusTags))

FeedHalfSecondPage ==
    /\ ~HeadersMissing(header_frames)
    /\ BaseGranule < MaxScenarioPages * HalfSecond
    /\ execute(PageBytes(BaseGranule + HalfSecond, AudioPayload))

ScenarioNext == FeedIdHeader \/ FeedCommentHeader \/ FeedHalfSecondPage

SpecScenario == Init /\ [][ScenarioNext]_vars

\* ------------------------------------------------------------------------
\* Streams whose first accounted page is at any of several granule
\* positions: the identification page, a comment page at 0 s, 2.5 s, 5 s or
\* 10 s, then audio pages that fall back, repeat or advance
\* ------------------------------------------------------------------------
FirstGranules == {0, 1, 2, 4}

FeedCommentHeaderAt ==
    /\ HeadersMissing(header_frames)
    /\ header_buffer /= <<>>
    /\ \E a \in FirstGranules : execute(PageBytes(a * GranuleStep, OpusTags))

FeedAudioPage ==
    /\ ~HeadersMissing(header_frames)
    /\ InBounds
    /\ \E g \in Granules({-1, 0, 1, 5}) : execute(PageBytes(g, AudioPayload))

OffsetNext == FeedIdHeader \/ FeedCommentHeaderAt \/ FeedAudioPage

SpecOffset == Init /\ [][OffsetNext]_vars

\* ------------------------------------------------------------------------
\* Two calls of execute on one instance, their steps interleaved (what
\* use_mutex=False would allow under a parallel controller; the controller
\* of lines 132-144 runs one call at a time).  Both calls begin in Streaming
\* with a window filled by the comment page at 0 and audio pages 2.5 s
\* apart.  A call's steps: read the tail's granule position (lines 63-68),
\* append (72), add the delta (73), test and pop the head (76-79), subtract
\* the popped frame's duration (80-83).  The blob of line 88 only reads.
\* ------------------------------------------------------------------------
Calls == {1, 2}

FilledWindow(k) ==
    [i \in 1..k |->
        OggSFrame(PageBytes((i - 1) * GranuleStep,
                            IF i = 1 THEN OpusTags ELSE AudioPayload))]

InitInterleaved ==
    /\ \E k \in 1..MaxWindow :
          /\ audio_data_buffer = FilledWindow(k)
          /\ current_audio_buffer_seconds = (k - 1) * GranuleStep
          /\ start_state = <<FilledWindow(k), (k - 1) * GranuleStep>>
          /\ last_granule = <<(k - 1) * GranuleStep>>
          /\ \E a, b \in {0, 1, 5} :
                threads = [t \in Calls |->
                    [pc |-> "read",
                     frame |-> OggSFrame(PageBytes(
                         (k - 1 + (IF t = 1 THEN a ELSE b)) * GranuleStep, AudioPayload)),
                     duration |-> 0,
                     popped |-> <<>>]]
    /\ header_buffer = PageBytes(0, OpusHead) \o PageBytes(0, OpusTags)
    /\ header_frames = <<OggSFrame(PageBytes(0, OpusHead)), OggSFrame(PageBytes(0, OpusTags))>>
    /\ dp_in = PageBytes(0, OpusTags)
    /\ dp_data = PageBytes(0, OpusTags)
    /\ outcome = "NoUpdate"
    /\ frame_duration = <<0>>
    /\ pop_frame = <<>>
    /\ streaming_before = FALSE
    /\ increasing = TRUE
    /\ max_page_samples = 0
    /\ empty_charge = 0
    /\ overlapped = FALSE

UnderWay(t) == threads[t].pc \notin {"read", "done"}

\* a step of call t: its position and locals change, and it is recorded
\* whether another call was under way
Step(t, pc, duration, popped) ==
    /\ threads' = [threads EXCEPT ![t] =
                      [pc |-> pc, frame |-> threads[t].frame,
                       duration |-> duration, popped |-> popped]]
    /\ overlapped' = (overlapped \/ \E u \in Calls \ {t} : UnderWay(u))
    /\ UNCHANGED <<header_buffer, header_frames, call_vars, hist_vars, start_state>>

\* lines 63-68
ReadTail(t) ==
    /\ threads[t].pc = "read"
    /\ Step(t, "append",
            calculate_frame_duration(threads[t].frame.header.granule_position,
                <<previous_granule_position(audio_data_buffer)>>, sample_rate),
            <<>>)
    /\ UNCHANGED <<audio_data_buffer, current_audio_buffer_seconds>>

\* line 72
AppendPage(t) ==
    /\ threads[t].pc = "append"
    /\ audio_data_buffer' = Append(audio_data_buffer, threads[t].frame)
    /\ Step(t, "add", threads[t].duration, <<>>)
    /\ UNCHANGED current_audio_buffer_seconds

\* line 73
AddDelta(t) ==
    /\ threads[t].pc = "add"
    /\ current_audio_buffer_seconds' = current_audio_buffer_seconds + threads[t].duration
    /\ Step(t, "evict", threads[t].duration, <<>>)
    /\ UNCHANGED audio_data_buffer

\* lines 76-79
EvictHead(t) ==
    /\ threads[t].pc = "evict"
    /\ IF ShouldEmit(threads[t].duration) /\ ShouldEvict(current_audio_buffer_seconds)
       THEN /\ audio_data_buffer' = Pop(audio_data_buffer).rest
            /\ Step(t, "subtract", threads[t].duration, <<Pop(audio_data_buffer).frame>>)
       ELSE /\ UNCHANGED audio_data_buffer
            /\ Step(t, "done", threads[t].duration, <<>>)
    /\ UNCHANGED current_audio_buffer_seconds

\* lines 80-83
SubtractEvicted(t) ==
    /\ threads[t].pc = "subtract"
    /\ current_audio_buffer_seconds' =
          current_audio_buffer_seconds
            - pop_frame_duration(threads[t].popped[1], audio_data_buffer)
    /\ Step(t, "done", threads[t].duration, threads[t].popped)
    /\ UNCHANGED audio_data_buffer

InterleavedNext ==
    \E t \in Calls :
        \/ ReadTail(t)
        \/ AppendPage(t)
        \/ AddDelta(t)
        \/ EvictHead(t)
        \/ SubtractEvicted(t)

SpecInterleaved == InitInterleaved /\ [][InterleavedNext]_vars

\* ========================================================================
\* Properties
\* ========================================================================
Target == last_n_seconds * sample_rate
Streaming == header_frames /= <<>>

\* the last step handed a well-formed page to the duration accounting
Accounted == WellFormed(dp_in) /\ Streaming

\* the granule position of a frame
Granule(f) == f.header.granule_position

\* delta as the specification words it: the page's granule position minus
\* that of the window's tail, or minus 0 for an empty window
TailDelta(window, data) ==
    data[2] - (IF window = <<>> THEN 0 ELSE Granule(window[Len(window)]))

\* ------------------------------------------------------------------------
\* C1 (as stated): while the accounted pages' granule positions strictly
\* increase, the cumulative duration is at most the target plus the largest
\* single-page duration.  Stated for streams whose first accounted page is at
\* granule position 0, so that nothing was charged against an empty window.
C1_BoundedByTargetPlusPage ==
    (Streaming /\ increasing /\ empty_charge = 0)
        => current_audio_buffer_seconds <= Target + max_page_samples

\* C1 (amended): while the accounted pages' granule positions strictly
\* increase, a call that begins with the cumulative duration below the target
\* ends with it at most the target plus the largest single-page duration.
C1_BoundedWhenBelowTarget ==
    [][ (Accounted' /\ increasing' /\ current_audio_buffer_seconds < Target)
            => current_audio_buffer_seconds' <= Target + max_page_samples' ]_vars

\* an evicting call of an increasing stream that ends above the target
C1_Witness ==
    /\ Streaming /\ increasing /\ pop_frame /= <<>>
    /\ Len(audio_data_buffer) >= 2
    /\ current_audio_buffer_seconds > Target
    /\ current_audio_buffer_seconds <= Target + max_page_samples

\* ------------------------------------------------------------------------
\* C2: the page accounted while the window is empty is attributed a duration
\* of 0 and the call ends NoUpdate, whatever its granule position.
C2_FirstPageZero ==
    [][ (Accounted' /\ audio_data_buffer = <<>>)
            => (frame_duration' = <<0>> /\ outcome' = "NoUpdate") ]_vars

\* ------------------------------------------------------------------------
\* C3: an emitted blob is the bytes of the captured header frames and nothing
\* else, followed by the raw bytes of the window's frames in window order:
\* split back into frames, it yields the captured header frames (in whatever
\* order they arrived) and then exactly the window's frames.
C3_BlobIsHeadersThenWindow ==
    outcome = "Blob"
        => LET frames == split_ogg_data_into_frames(dp_data)
               h == Len(header_frames)
               w == Len(audio_data_buffer)
           IN  /\ dp_data = JoinRaw(frames)
               /\ Len(frames) = h + w
               /\ SubSeq(frames, h + 1, h + w) = audio_data_buffer
               /\ { frames[i] : i \in 1..h } = { header_frames[j] : j \in 1..h }

\* ------------------------------------------------------------------------
\* C4: a call that reaches the accounting replaces the payload by the blob
\* (the header bytes then the window's bytes) exactly when the page's delta
\* is above 0; otherwise the payload is left as received, and a page of delta
\* 0 is appended to the window tail, nothing removed.
C4_EmitIffPositiveDelta ==
    [][ Accounted'
            => LET delta == TailDelta(audio_data_buffer, dp_in')
               IN  /\ (outcome' = "Blob") <=> (delta > 0)
                   /\ (outcome' = "NoUpdate") <=> (delta <= 0)
                   /\ delta > 0 =>
                        dp_data' = header_buffer' \o JoinRaw(audio_data_buffer')
                   /\ delta <= 0 => dp_data' = dp_in'
                   /\ delta = 0 =>
                        audio_data_buffer' =
                            Append(audio_data_buffer, OggSFrame(dp_in')) ]_vars

\* a streaming call whose page repeated the tail's granule position
C4_Witness ==
    /\ Accounted /\ streaming_before
    /\ outcome = "NoUpdate"
    /\ frame_duration = <<0>>
    /\ Len(audio_data_buffer) >= 2
    /\ audio_data_buffer[Len(audio_data_buffer)].raw_data = dp_in
    /\ Granule(audio_data_buffer[Len(audio_data_buffer) - 1]) = dp_in[2]

\* ------------------------------------------------------------------------
\* C5: when two consecutive streaming calls carry pages of the same granule
\* position, the second leaves the cumulative duration as it was and emits
\* no blob.
C5_RepeatedGranuleIsNoOp ==
    [][ (Accounted /\ streaming_before /\ Accounted' /\ dp_in'[2] = dp_in[2])
            => /\ current_audio_buffer_seconds' = current_audio_buffer_seconds
               /\ outcome' /= "Blob" ]_vars

\* ------------------------------------------------------------------------
\* C6 (as stated): bytes that are no well-formed page, the empty input
\* included, end the call with StructuralParseError and leave the window,
\* the cumulative duration and the header state as they were.
C6_MalformedOrEmptyRaises ==
    [][ ~WellFormed(dp_in')
            => (outcome' = "StructuralParseError" /\ UNCHANGED code_vars) ]_vars

\* C6 (amended): non-empty bytes that are no well-formed page end the call
\* with StructuralParseError; an empty input raises nothing and is skipped;
\* both leave the window, the cumulative duration and the header state as
\* they were, and no other call ends with StructuralParseError.
C6_MalformedRaisesEmptySkipped ==
    [][ /\ ~WellFormed(dp_in') => (UNCHANGED code_vars /\ dp_data' = dp_in')
        /\ (outcome' = "StructuralParseError")
              <=> (dp_in' /= <<>> /\ ~WellFormed(dp_in'))
        /\ (outcome' = "Skipped") <=> (dp_in' = <<>>) ]_vars

\* a malformed input met a filled window
C6_Witness ==
    /\ outcome = "StructuralParseError"
    /\ dp_in /= <<>> /\ ~WellFormed(dp_in)
    /\ Streaming
    /\ Len(audio_data_buffer) >= 2
    /\ current_audio_buffer_seconds > 0

\* ------------------------------------------------------------------------
\* C7: no frame of the window is one of the captured header frames.
C7_NoHeaderInWindow ==
    \A i \in 1..Len(audio_data_buffer) :
        \A j \in 1..Len(header_frames) :
            audio_data_buffer[i] /= header_frames[j]

\* ------------------------------------------------------------------------
\* C8: when the first call carries only the identification page it ends
\* HeadersIncomplete; the next call, carrying the comment page, captures the
\* headers and runs the accounting on its own page: the page is attributed
\* its delta, added to the cumulative duration, appended to the window (and
\* evicted again if the target is reached), and the blob is emitted when the
\* delta is above 0.
C8_CaptureSpansTwoCalls ==
    [][ /\ (header_buffer = <<>> /\ ~Streaming
              /\ WellFormed(dp_in') /\ dp_in'[3] = OpusHead)
            => (outcome' = "HeadersIncomplete" /\ ~Streaming'
                  /\ header_buffer' = dp_in'
                  /\ UNCHANGED <<audio_data_buffer, current_audio_buffer_seconds>>)
        /\ (~Streaming /\ Len(header_buffer) = 3 /\ header_buffer[3] = OpusHead
              /\ outcome = "HeadersIncomplete"
              /\ WellFormed(dp_in') /\ dp_in'[3] = OpusTags)
            => LET page    == OggSFrame(dp_in')
                   delta   == TailDelta(audio_data_buffer, dp_in')
                   evicted == delta > 0 /\ delta >= Target
               IN  /\ header_frames' = <<OggSFrame(header_buffer), page>>
                   /\ frame_duration' = <<delta>>
                   /\ current_audio_buffer_seconds' = delta
                   /\ audio_data_buffer' = IF evicted THEN <<>> ELSE <<page>>
                   /\ pop_frame' = IF evicted THEN <<page>> ELSE <<>>
                   /\ outcome' = IF delta > 0 THEN "Blob" ELSE "NoUpdate"
      ]_vars

\* the comment page of a two-call capture went through the accounting
C8_Witness ==
    /\ Streaming /\ ~streaming_before
    /\ Len(header_buffer) = 6
    /\ header_buffer[3] = OpusHead /\ header_buffer[6] = OpusTags
    /\ dp_in = SubSeq(header_buffer, 4, 6)
    /\ frame_duration /= <<>>
    /\ audio_data_buffer = <<OggSFrame(dp_in)>>

\* ------------------------------------------------------------------------
\* C9 (half-second scenario): after the k-th audio page, no frame has been
\* popped while k is below 20 and the window holds every page so far; from
\* page 20 on every call pops the oldest frame, the cumulative duration is
\* within half a second of the target, and the window holds the 20 most
\* recent pages.
PagesPerWindow == Target \div HalfSecond

C9_HalfSecondScenario ==
    (Streaming /\ last_granule /= <<>> /\ outcome \in {"Blob", "NoUpdate"})
        => LET k == last_granule[1] \div HalfSecond
               n == Len(audio_data_buffer)
           IN  /\ k < PagesPerWindow
                    => /\ pop_frame = <<>>
                       /\ n = k + 1
                       /\ current_audio_buffer_seconds = k * HalfSecond
                       /\ current_audio_buffer_seconds < Target
               /\ k >= PagesPerWindow
                    => /\ pop_frame /= <<>>
                       /\ Granule(pop_frame[1]) = (k - PagesPerWindow) * HalfSecond
                       /\ current_audio_buffer_seconds - Target <= HalfSecond
                       /\ Target - current_audio_buffer_seconds <= HalfSecond
                       /\ n = PagesPerWindow
                       /\ \A i \in 1..n :
                            Granule(audio_data_buffer[i]) = (k - n + i) * HalfSecond

\* page 21 has been accounted
C9_Witness ==
    /\ Streaming
    /\ last_granule = <<(PagesPerWindow + 1) * HalfSecond>>
    /\ pop_frame /= <<>>
    /\ Len(audio_data_buffer) = PagesPerWindow
    /\ current_audio_buffer_seconds = Target - HalfSecond

\* ------------------------------------------------------------------------
\* C10: once the headers are captured, no call ends HeadersIncomplete or
\* touches the captured frames or the header bytes; before that, a call on a
\* well-formed page that does not complete the capture ends
\* HeadersIncomplete and leaves the headers absent.
C10_OneWayTransition ==
    [][ /\ Streaming
            => /\ Streaming'
               /\ header_frames' = header_frames
               /\ header_buffer' = header_buffer
               /\ outcome' /= "HeadersIncomplete"
        /\ (~Streaming /\ WellFormed(dp_in'))
            => (outcome' = "HeadersIncomplete") <=> ~Streaming'
        /\ (outcome' = "HeadersIncomplete")
            => (~Streaming /\ ~Streaming' /\ WellFormed(dp_in')) ]_vars

\* a header page arrived after the capture and went through the accounting
C10_Witness ==
    /\ Streaming /\ streaming_before
    /\ WellFormed(dp_in) /\ dp_in[3] \in {OpusHead, OpusTags}
    /\ outcome = "NoUpdate"
    /\ Len(audio_data_buffer) >= 2

\* ------------------------------------------------------------------------
\* the window of a call after its append, and its cumulative duration then
Appended(window, data) == Append(window, OggSFrame(data))
SecondsAfterAppend(window, seconds, data) == seconds + TailDelta(window, data)

\* the duration attributed to the head of a window when it is evicted: the
\* next frame's granule position minus its own, or 0 when it is alone
HeadDuration(window) ==
    IF Len(window) > 1 THEN Granule(window[2]) - Granule(window[1]) ELSE 0

\* C11 (as stated): in every call that reaches the accounting, once the page
\* is appended, a cumulative duration at or above the target removes exactly
\* one frame, the head, and takes its attributed duration off; a cumulative
\* duration below the target removes nothing.  Stated for pages that do not
\* fall back, on streams where nothing was charged against an empty window.
C11_EvictWheneverAtTarget ==
    [][ (Accounted' /\ empty_charge' = 0
           /\ TailDelta(audio_data_buffer, dp_in') >= 0)
            => LET after   == Appended(audio_data_buffer, dp_in')
                   seconds == SecondsAfterAppend(audio_data_buffer,
                                  current_audio_buffer_seconds, dp_in')
               IN  IF seconds >= Target
                   THEN /\ audio_data_buffer' = Tail(after)
                        /\ current_audio_buffer_seconds' = seconds - HeadDuration(after)
                   ELSE /\ audio_data_buffer' = after
                        /\ current_audio_buffer_seconds' = seconds ]_vars

\* C11 (amended): the head is removed, exactly one frame, and its attributed
\* duration taken off, when the page's delta is above 0 and the cumulative
\* duration is at or above the target; in every other call that reaches the
\* accounting nothing is removed.
C11_EvictWhenAdvancedAndAtTarget ==
    [][ Accounted'
            => LET after   == Appended(audio_data_buffer, dp_in')
                   seconds == SecondsAfterAppend(audio_data_buffer,
                                  current_audio_buffer_seconds, dp_in')
               IN  IF TailDelta(audio_data_buffer, dp_in') > 0 /\ seconds >= Target
                   THEN /\ audio_data_buffer' = Tail(after)
                        /\ pop_frame' = <<Head(after)>>
                        /\ current_audio_buffer_seconds' = seconds - HeadDuration(after)
                   ELSE /\ audio_data_buffer' = after
                        /\ pop_frame' = <<>>
                        /\ current_audio_buffer_seconds' = seconds ]_vars

\* a call that popped one frame of several and is still above the target
C11_Witness ==
    /\ Accounted /\ streaming_before
    /\ pop_frame /= <<>>
    /\ Len(audio_data_buffer) >= 2
    /\ Granule(audio_data_buffer[1]) > Granule(pop_frame[1])
    /\ current_audio_buffer_seconds >= Target

\* ------------------------------------------------------------------------
\* C12 (as stated): after a call that follows a call at which the cumulative
\* duration reached the target (that call evicted), the cumulative duration
\* is still at or above the target.  Stated for strictly increasing granule
\* positions, on streams where nothing was charged against an empty window.
C12_RetainedAtLeastTarget ==
    [][ (pop_frame /= <<>> /\ Accounted' /\ increasing' /\ empty_charge' = 0)
            => current_audio_buffer_seconds' >= Target ]_vars

\* C12 (amended): after a call that evicts, the cumulative duration of the
\* frames retained plus the duration attributed to the evicted frame is at or
\* above the target: eviction takes the retained duration below the target by
\* no more than what the evicted frame was attributed.
C12_RetainedPlusEvictedAtLeastTarget ==
    [][ (Accounted' /\ pop_frame' /= <<>>)
            => current_audio_buffer_seconds'
                 + HeadDuration(<<pop_frame'[1]>> \o audio_data_buffer') >= Target ]_vars

\* an eviction left less than the target
C12_Witness ==
    /\ Accounted /\ streaming_before
    /\ pop_frame /= <<>>
    /\ audio_data_buffer /= <<>>
    /\ current_audio_buffer_seconds < Target
    /\ current_audio_buffer_seconds
         + Granule(audio_data_buffer[1]) - Granule(pop_frame[1]) >= Target

\* ------------------------------------------------------------------------
\* C13: a call that ends HeadersIncomplete appends its raw bytes to the
\* header accumulator and changes nothing else: the window, the cumulative
\* duration and the absent headers stay, and the payload is not replaced.
C13_HeadersIncompleteOnlyAccumulates ==
    [][ outcome' = "HeadersIncomplete"
            => /\ header_buffer' = header_buffer \o dp_in'
               /\ UNCHANGED <<audio_data_buffer, current_audio_buffer_seconds,
                              header_frames>>
               /\ dp_data' = dp_in' ]_vars

\* a second page was accumulated with the headers still incomplete
C13_Witness ==
    /\ outcome = "HeadersIncomplete"
    /\ Len(header_buffer) = 6
    /\ SubSeq(header_buffer, 4, 6) = dp_in
    /\ audio_data_buffer = <<>>
    /\ current_audio_buffer_seconds = 0

\* ------------------------------------------------------------------------
\* C14: once the headers are captured no call changes the captured frames
\* or the header bytes, and every blob begins with those header bytes.
C14_HeadersImmutable ==
    [][ /\ Streaming => (header_frames' = header_frames
                           /\ header_buffer' = header_buffer)
        /\ outcome' = "Blob"
              => /\ Len(dp_data') >= Len(header_buffer')
                 /\ SubSeq(dp_data', 1, Len(header_buffer')) = header_buffer'
      ]_vars

\* a blob emitted by a call after the capture
C14_Witness ==
    /\ Streaming /\ streaming_before
    /\ outcome = "Blob"
    /\ Len(audio_data_buffer) >= 2
    /\ SubSeq(dp_data, 1, Len(header_buffer)) = header_buffer
    /\ Len(header_buffer) >= 6

\* ------------------------------------------------------------------------
\* C15: a call that reaches the accounting appends its page at the tail and
\* removes at most the head; no other call touches the window; a window that
\* is not empty after such a call ends with the call's page.  (Step by step,
\* this keeps the window a contiguous suffix of the pages accounted.)
C15_WindowIsSuffix ==
    [][ /\ Accounted'
            => LET after == Appended(audio_data_buffer, dp_in')
               IN  /\ audio_data_buffer' \in {after, Tail(after)}
                   /\ audio_data_buffer' /= <<>>
                        => audio_data_buffer'[Len(audio_data_buffer')]
                             = OggSFrame(dp_in')
        /\ ~Accounted' => audio_data_buffer' = audio_data_buffer ]_vars

\* a call dropped the head and kept its page at the tail
C15_Witness ==
    /\ Accounted /\ streaming_before
    /\ pop_frame /= <<>>
    /\ Len(audio_data_buffer) >= 3
    /\ audio_data_buffer[Len(audio_data_buffer)] = OggSFrame(dp_in)

C18_NonEmptyStaysNonEmpty ==
    [][ /\ audio_data_buffer /= <<>> => audio_data_buffer' /= <<>>
        /\ (Accounted' /\ audio_data_buffer' = <<>>)
              => /\ audio_data_buffer = <<>>
                 /\ pop_frame' = <<OggSFrame(dp_in')>>
                 /\ dp_in'[2] > 0
                 /\ current_audio_buffer_seconds + dp_in'[2] >= Target
        /\ (outcome' = "Blob" /\ audio_data_buffer /= <<>>)
              => Len(dp_data') >= Len(header_buffer') + 3 ]_vars

\* a window of one frame went through an evicting call
C18_Witness ==
    /\ Accounted /\ streaming_before
    /\ pop_frame /= <<>>
    /\ Len(audio_data_buffer) = 1
    /\ outcome = "Blob"

\* ------------------------------------------------------------------------
\* C19: a call that reaches no emission (HeadersIncomplete, or a delta that
\* is 0 or below) hands on the payload it received; the payload is replaced,
\* by the blob, only when the delta is above 0.
C19_PayloadKeptUnlessEmitted ==
    [][ /\ outcome' = "HeadersIncomplete" => dp_data' = dp_in'
        /\ (Accounted' /\ TailDelta(audio_data_buffer, dp_in') <= 0)
              => (dp_data' = dp_in' /\ dp_data' /= <<>>)
        /\ dp_data' /= dp_in'
              => /\ Accounted'
                 /\ TailDelta(audio_data_buffer, dp_in') > 0
                 /\ dp_data' = header_buffer' \o JoinRaw(audio_data_buffer') ]_vars

\* a page that fell back was handed on as received
C19_Witness ==
    /\ Accounted /\ streaming_before
    /\ frame_duration /= <<>> /\ frame_duration[1] < 0
    /\ outcome = "NoUpdate"
    /\ dp_data = dp_in

\* ------------------------------------------------------------------------
\* the window and cumulative duration one whole call leaves, from the
\* granule positions alone
AfterCall(state, frame) ==
    LET window  == state[1]
        delta   == Granule(frame) - (IF window = <<>> THEN 0
                                     ELSE Granule(window[Len(window)]))
        after   == Append(window, frame)
        seconds == state[2] + delta
    IN  IF delta > 0 /\ seconds >= Target
        THEN <<Tail(after), seconds - HeadDuration(after)>>
        ELSE <<after, seconds>>

\* what the two calls leave when one runs after the other, in either order
SerialResults ==
    { AfterCall(AfterCall(start_state, threads[1].frame), threads[2].frame),
      AfterCall(AfterCall(start_state, threads[2].frame), threads[1].frame) }

BothDone == threads /= <<>> /\ \A t \in Calls : threads[t].pc = "done"

\* C16: when the two calls ran one after the other, the window and the
\* cumulative duration they leave are those of a serial execution; with
\* their steps interleaved a state is reached (C16_Witness) that no serial
\* execution of the two calls leaves.
C16_SerialCallsAgree ==
    (BothDone /\ ~overlapped)
        => <<audio_data_buffer, current_audio_buffer_seconds>> \in SerialResults

\* interleaved calls, each with a page past the window's tail, left a window
\* or a cumulative duration that neither serial order leaves
C16_Witness ==
    /\ BothDone /\ overlapped
    /\ \A t \in Calls :
          Granule(threads[t].frame) > Granule(start_state[1][Len(start_state[1])])
    /\ <<audio_data_buffer, current_audio_buffer_seconds>> \notin SerialResults

====
